---- MODULE Spec2Model ----
(***************************************************************************)
(* Model of the GDB remote-serial-protocol session engine of gdbstub:      *)
(* GdbStub::new, GdbStub::recv_packet, GdbStub::handle_command and         *)
(* GdbStub::run (src/src/stub.rs), together with the transport and target  *)
(* collaborators they are generic over.                                    *)
(*                                                                         *)
(* Bytes are their ASCII codes.  The transport is a pair of byte queues:   *)
(* conn_in holds the bytes that have arrived and are not yet read,         *)
(* conn_out the bytes the engine has written.  A blocking read is an       *)
(* action that is enabled only when a byte is pending (or the read         *)
(* fails), so an engine waiting for input is a state with no engine step.  *)
(***************************************************************************)
EXTENDS Integers, Sequences, FiniteSets, TLC

\* ------------------------------------------------------------------ bounds
\* number of units (ack, nack, frame, stray byte) the debugger sends
MaxMsgs == 2
\* number of target.step calls explored
MaxSteps == 2

\* ------------------------------------------------------------------- bytes
Plus == 43
Minus == 45
Dollar == 36
Hash == 35

\* "OK", the payload handle_command writes for Command::H
OkPayload == <<79, 75>>

\* bodies the debugger sends
BodyC == <<99>>
BodyS == <<115>>
BodyH == <<72, 103, 48>>
BodyUnknown == <<63>>
BodyQSupported == <<113, 83, 117, 112, 112, 111, 114, 116, 101, 100>>

\* ------------------------------------------------------- packet codec (§4.1)
RECURSIVE SumBytes(_)
SumBytes(s) == IF s = <<>> THEN 0 ELSE Head(s) + SumBytes(Tail(s))

\* 8-bit sum of the payload bytes
Checksum(p) == SumBytes(p) % 256

\* one lowercase hexadecimal digit as an ASCII byte
HexDigit(d) == IF d < 10 THEN 48 + d ELSE 87 + d

\* the two-hex-digit rendering of an 8-bit value
Hex2(n) == <<HexDigit(n \div 16), HexDigit(n % 16)>>

\* value of an ASCII hexadecimal digit, -1 when the byte is not one
HexVal(b) ==
    IF b >= 48 /\ b <= 57 THEN b - 48
    ELSE IF b >= 97 /\ b <= 102 THEN b - 87
    ELSE IF b >= 65 /\ b <= 70 THEN b - 55
    ELSE -1

\* write_response: `$`, the payload, `#`, the two checksum digits
Frame(p) == <<Dollar>> \o p \o <<Hash>> \o Hex2(Checksum(p))

IsPrefix(s, t) == Len(s) <= Len(t) /\ SubSeq(t, 1, Len(s)) = s

\* Command parser dispatch on the leading letter / prefix (§4.2, §6)
ParseCommand(body) ==
    IF body = <<>> THEN "Unknown"
    ELSE IF IsPrefix(BodyQSupported, body) THEN "QSupported"
    ELSE IF Head(body) = 99 THEN "c"
    ELSE IF Head(body) = 115 THEN "s"
    ELSE IF Head(body) = 72 THEN "H"
    ELSE "Unknown"

\* Packet::from_buf: Ack | Nack | Command(body) | error
FromBuf(buf) ==
    IF buf = <<Plus>> THEN [kind |-> "Ack", cmd |-> "-", why |-> "-"]
    ELSE IF buf = <<Minus>> THEN [kind |-> "Nack", cmd |-> "-", why |-> "-"]
    ELSE IF Head(buf) = Dollar /\ Len(buf) >= 4 /\ buf[Len(buf) - 2] = Hash
    THEN LET body == SubSeq(buf, 2, Len(buf) - 3)
             h1 == HexVal(buf[Len(buf) - 1])
             h2 == HexVal(buf[Len(buf)])
         IN  IF h1 < 0 \/ h2 < 0
             THEN [kind |-> "Err", cmd |-> "-", why |-> "checksum_digits"]
             ELSE IF 16 * h1 + h2 # Checksum(body)
             THEN [kind |-> "Err", cmd |-> "-", why |-> "checksum_mismatch"]
             ELSE [kind |-> "Command", cmd |-> ParseCommand(body), why |-> "-"]
    ELSE [kind |-> "Err", cmd |-> "-", why |-> "framing"]

\* ------------------------------------------------------------ debugger side
\* a frame whose transmitted checksum is off by one
Corrupt(p) == <<Dollar>> \o p \o <<Hash>> \o Hex2((Checksum(p) + 1) % 256)

\* the units the debugger may send
Catalog ==
    { <<Plus>>, <<Minus>>, <<120>>,
      Frame(BodyC), Frame(BodyS), Frame(BodyH), Frame(BodyUnknown),
      Frame(BodyQSupported), Corrupt(BodyC) }

\* memory accesses one target.step may report through the sink
StepAccesses == { <<>>, <<"rd">>, <<"rd", "wr">> }

\* ------------------------------------------------------------------- state
VARIABLES
    exec_state,     \* GdbStub.exec_state
    conn_in,        \* transport: bytes arrived, not yet read
    conn_out,       \* transport: bytes written by the engine
    packet_buffer,  \* run's packet_buffer
    mem_accesses,   \* run's mem_accesses
    pc,             \* position of run: recv, body, ck1, ck2, decode, exec, done
    result,         \* what run returned / how it ended ("none" while running)
    peer_cur,       \* debugger: rest of the unit being transmitted
    peer_sent,      \* debugger: units started
    steps,          \* history: target.step calls so far
    nread,          \* history: bytes the engine has read
    failed,         \* history: the first operation that failed
    it,             \* history: what happened in the current loop iteration
    prev,           \* history: what happened in the last completed iteration
    last_resp,      \* history: the last response frame written in full
    hist,           \* history: bytes sent by the debugger, commands received,
                    \* flush calls, bytes read before the current recv_packet
    m_body,         \* m::parse: the body it is called with
    m_bits,         \* m::parse: the width of usize of the build
    m_res,          \* m::parse: its result
    m_pc            \* m::parse: "call" before, "done" after, "off" in a session

\* the state of a session
engine_vars == <<exec_state, conn_in, conn_out, packet_buffer, mem_accesses, pc,
                 result, peer_cur, peer_sent, steps, nread, failed, it, prev,
                 last_resp, hist>>

\* the state of a call of m::parse
parse_vars == <<m_body, m_bits, m_res, m_pc>>

vars == <<engine_vars, parse_vars>>

\* m::parse is not running
ParseOff ==
    /\ m_body = <<>>
    /\ m_bits = 64
    /\ m_res = [ok |-> FALSE, addr |-> <<>>, len |-> <<>>]
    /\ m_pc = "off"

\* history at the start of run
HistStart == [stream |-> <<>>, cmds |-> 0, flushes |-> 0, unit_start |-> 0]

ExecStates == {"Paused", "Running", "Exit"}

\* iteration history at the start of an iteration: the state it started in,
\* the recv_packet calls made, what recv_packet produced, the command
\* dispatched, the bytes written, the order of events, the steps taken
ItStart(es) ==
    [es0 |-> es, polls |-> 0, got |-> "-", why |-> "-", cmd |-> "-",
     out |-> <<>>, ev |-> <<>>, steps |-> 0, step_res |-> "-"]

\* variant: a stub constructed in the Exit state
InitExit ==
    /\ exec_state = "Exit"
    /\ conn_in = <<>>
    /\ conn_out = <<>>
    /\ packet_buffer = <<>>
    /\ mem_accesses = <<>>
    /\ pc = "recv"
    /\ result = "none"
    /\ peer_cur = <<>>
    /\ peer_sent = 0
    /\ steps = 0
    /\ nread = 0
    /\ failed = "none"
    /\ it = ItStart("Exit")
    /\ prev = ItStart("Exit")
    /\ last_resp = <<>>
    /\ hist = HistStart
    /\ ParseOff

\* GdbStub::new, then run's locals
Init ==
    /\ exec_state = "Paused"
    /\ conn_in = <<>>
    /\ conn_out = <<>>
    /\ packet_buffer = <<>>
    /\ mem_accesses = <<>>
    /\ pc = "recv"
    /\ result = "none"
    /\ peer_cur = <<>>
    /\ peer_sent = 0
    /\ steps = 0
    /\ nread = 0
    /\ failed = "none"
    /\ it = ItStart("Paused")
    /\ prev = ItStart("Paused")
    /\ last_resp = <<>>
    /\ hist = HistStart
    /\ ParseOff

\* run entered on a stub whose exec_state field holds any ExecState value
InitRun ==
    /\ exec_state \in ExecStates
    /\ conn_in = <<>>
    /\ conn_out = <<>>
    /\ packet_buffer = <<>>
    /\ mem_accesses = <<>>
    /\ pc = "recv"
    /\ result = "none"
    /\ peer_cur = <<>>
    /\ peer_sent = 0
    /\ steps = 0
    /\ nread = 0
    /\ failed = "none"
    /\ it = ItStart(exec_state)
    /\ prev = ItStart(exec_state)
    /\ last_resp = <<>>
    /\ hist = HistStart
    /\ ParseOff

\* ------------------------------------------------------------ the debugger
\* the debugger puts the next byte on the transport: the next byte of the
\* unit it is sending, or the first byte of a new unit
PeerSend ==
    IF peer_cur # <<>>
    THEN /\ conn_in' = Append(conn_in, Head(peer_cur))
         /\ hist' = [hist EXCEPT !.stream = Append(@, Head(peer_cur))]
         /\ peer_cur' = Tail(peer_cur)
         /\ UNCHANGED <<exec_state, conn_out, packet_buffer, mem_accesses, pc,
                        result, peer_sent, steps, nread, failed, it, prev,
                        last_resp, parse_vars>>
    ELSE /\ peer_sent < MaxMsgs
         /\ \E m \in Catalog :
               /\ conn_in' = Append(conn_in, Head(m))
               /\ hist' = [hist EXCEPT !.stream = Append(@, Head(m))]
               /\ peer_cur' = Tail(m)
         /\ peer_sent' = peer_sent + 1
         /\ UNCHANGED <<exec_state, conn_out, packet_buffer, mem_accesses, pc,
                        result, steps, nread, failed, it, prev, last_resp,
                        parse_vars>>

\* ------------------------------------------------------------ recv_packet
\* variant: the first-byte read always blocks
HeaderBlockingAlways(es) == TRUE

\* the first-byte read blocks exactly when the session is paused
HeaderBlocking(es) == es = "Paused"

\* run ends: `?` returns the error, a panic unwinds
Finish(res, op) ==
    /\ pc' = "done"
    /\ result' = res
    /\ failed' = op

\* variant: the body loop is entered whatever the header byte is
AfterHeaderAlwaysBody(b) == "body"

\* after the header byte: only `$` is followed by further reads
AfterHeader(b) == IF b = Dollar THEN "body" ELSE "decode"

\* recv_packet up to the header byte: the first-byte read and, for a byte
\* other than `$`, nothing more
RecvHeader ==
    /\ pc = "recv"
    /\ hist' = [hist EXCEPT !.unit_start = nread]
    /\ IF exec_state = "Exit"
       THEN /\ Finish("panic_unreachable", failed)
            /\ it' = [it EXCEPT !.polls = @ + 1, !.ev = Append(@, "poll")]
            /\ UNCHANGED <<conn_in, packet_buffer, nread>>
       ELSE \E ok \in BOOLEAN :
            IF ~ok
            THEN /\ Finish("ErrConnection",
                           IF HeaderBlocking(exec_state) THEN "read"
                           ELSE "read_nonblocking")
                 /\ it' = [it EXCEPT !.polls = @ + 1, !.ev = Append(@, "poll")]
                 /\ UNCHANGED <<conn_in, packet_buffer, nread>>
            ELSE IF conn_in = <<>>
            THEN /\ ~HeaderBlocking(exec_state)
                 /\ pc' = "exec"
                 /\ it' = [it EXCEPT !.polls = @ + 1, !.ev = Append(@, "poll"),
                                     !.got = "None"]
                 /\ UNCHANGED <<conn_in, packet_buffer, nread, result, failed>>
            ELSE /\ conn_in' = Tail(conn_in)
                 /\ nread' = nread + 1
                 /\ packet_buffer' = <<Head(conn_in)>>
                 /\ pc' = AfterHeader(Head(conn_in))
                 /\ it' = [it EXCEPT !.polls = @ + 1, !.ev = Append(@, "poll")]
                 /\ UNCHANGED <<result, failed>>
    /\ UNCHANGED <<exec_state, conn_out, mem_accesses, peer_cur, peer_sent,
                   steps, prev, last_resp, parse_vars>>

\* one turn of the body loop: a blocking read, `#` ends the body
RecvBody ==
    /\ pc = "body"
    /\ \E ok \in BOOLEAN :
          IF ~ok
          THEN /\ Finish("ErrConnection", "read")
               /\ UNCHANGED <<conn_in, packet_buffer, nread>>
          ELSE /\ conn_in # <<>>
               /\ conn_in' = Tail(conn_in)
               /\ nread' = nread + 1
               /\ packet_buffer' = Append(packet_buffer, Head(conn_in))
               /\ pc' = IF Head(conn_in) = Hash THEN "ck1" ELSE "body"
               /\ UNCHANGED <<result, failed>>
    /\ UNCHANGED <<exec_state, conn_out, mem_accesses, peer_cur, peer_sent,
                   steps, it, prev, last_resp, hist, parse_vars>>

\* the two blocking reads of the checksum characters
RecvChecksum ==
    /\ pc \in {"ck1", "ck2"}
    /\ \E ok \in BOOLEAN :
          IF ~ok
          THEN /\ Finish("ErrConnection", "read")
               /\ UNCHANGED <<conn_in, packet_buffer, nread>>
          ELSE /\ conn_in # <<>>
               /\ conn_in' = Tail(conn_in)
               /\ nread' = nread + 1
               /\ packet_buffer' = Append(packet_buffer, Head(conn_in))
               /\ pc' = IF pc = "ck1" THEN "ck2" ELSE "decode"
               /\ UNCHANGED <<result, failed>>
    /\ UNCHANGED <<exec_state, conn_out, mem_accesses, peer_cur, peer_sent,
                   steps, it, prev, last_resp, hist, parse_vars>>

\* --------------------------------------------------------- handle_command
\* variant: the catch-all arms answer "OK" as the H arm does
ResponsePayloadOkForAll(cmd) == IF cmd = "QSupported" THEN <<>> ELSE OkPayload

\* the payload the match arms append before the flush
ResponsePayload(cmd) == IF cmd = "H" THEN OkPayload ELSE <<>>

\* the transport operations of handle_command that can fail for a command
FailPoints(cmd) ==
    {"ok", "ack_write", "flush"} \cup (IF cmd = "H" THEN {"write_str"} ELSE {})

\* variant: the H arm flushes its own frame and the common flush follows
HandleWritesFlushTwice(cmd, f, k) ==
    IF f = "ack_write" THEN <<>>
    ELSE IF f = "write_str" THEN <<Plus>>
    ELSE IF f = "flush" THEN <<Plus>> \o SubSeq(Frame(ResponsePayload(cmd)), 1, k)
    ELSE IF cmd = "H"
    THEN <<Plus>> \o Frame(ResponsePayload(cmd)) \o Frame(<<>>)
    ELSE <<Plus>> \o Frame(ResponsePayload(cmd))

\* variant: a failed `+` does not stop the response
HandleWritesAfterFailedAck(cmd, f, k) ==
    IF f = "ack_write" THEN Frame(ResponsePayload(cmd))
    ELSE IF f = "write_str" THEN <<Plus>>
    ELSE IF f = "flush" THEN <<Plus>> \o SubSeq(Frame(ResponsePayload(cmd)), 1, k)
    ELSE <<Plus>> \o Frame(ResponsePayload(cmd))

\* variant: the response is written first and the `+` after it
HandleWritesAckLast(cmd, f, k) ==
    IF f = "ack_write" THEN Frame(ResponsePayload(cmd))
    ELSE IF f = "write_str" THEN <<>>
    ELSE IF f = "flush" THEN SubSeq(Frame(ResponsePayload(cmd)), 1, k)
    ELSE Frame(ResponsePayload(cmd)) \o <<Plus>>

\* the bytes handle_command puts on the transport: f is the operation that
\* fails ("ok": none), k the bytes of the frame a failing flush got out
HandleWrites(cmd, f, k) ==
    IF f = "ack_write" THEN <<>>
    ELSE IF f = "write_str" THEN <<Plus>>
    ELSE IF f = "flush" THEN <<Plus>> \o SubSeq(Frame(ResponsePayload(cmd)), 1, k)
    ELSE <<Plus>> \o Frame(ResponsePayload(cmd))

\* the events of handle_command, in order
HandleEvents(f) ==
    IF f = "ack_write" THEN <<>>
    ELSE IF f = "ok" THEN <<"ack", "response">>
    ELSE <<"ack">>

\* the calls of ResponseWriter::flush handle_command makes: the one at its
\* end, reached unless the `+` or the write_str failed
FlushCalls(cmd, f) == IF f \in {"ok", "flush"} THEN 1 ELSE 0

\* variant: continue and step set the session running
HandleExecStateContinue(cmd, es) == IF cmd \in {"c", "s"} THEN "Running" ELSE es

\* exec_state after handle_command: no arm assigns it
HandleExecState(cmd, es) == es

\* variant: the Ack arm answers with an acknowledgment of its own
AckWritesEcho == <<Plus>>

\* the Packet::Ack arm of run writes nothing
AckWrites == <<>>

\* variant: the result of handle_command is dropped
AfterHandleSwallow(f) == "exec"

\* where run goes after handle_command returned: `?` returns the error
AfterHandle(f) == IF f = "ok" THEN "exec" ELSE "done"

\* the end of recv_packet (Packet::from_buf) and run's match on the packet
Dispatch ==
    /\ pc = "decode"
    /\ LET pkt == FromBuf(packet_buffer) IN
       CASE pkt.kind = "Err" ->
              /\ Finish("ErrPacketParse", "decode")
              /\ it' = [it EXCEPT !.got = "Err", !.why = pkt.why]
              /\ UNCHANGED <<conn_out, exec_state, last_resp, hist>>
         [] pkt.kind = "Ack" ->
              /\ pc' = "exec"
              /\ conn_out' = conn_out \o AckWrites
              /\ it' = [it EXCEPT !.got = "Ack", !.out = @ \o AckWrites]
              /\ UNCHANGED <<result, failed, exec_state, last_resp, hist>>
         [] pkt.kind = "Nack" ->
              /\ Finish("panic_unimplemented", failed)
              /\ it' = [it EXCEPT !.got = "Nack"]
              /\ UNCHANGED <<conn_out, exec_state, last_resp, hist>>
         [] pkt.kind = "Command" ->
              \E f \in FailPoints(pkt.cmd) :
              \E k \in 0..(Len(Frame(ResponsePayload(pkt.cmd))) - 1) :
                 /\ f # "flush" => k = 0
                 /\ conn_out' = conn_out \o HandleWrites(pkt.cmd, f, k)
                 /\ exec_state' = HandleExecState(pkt.cmd, exec_state)
                 /\ it' = [it EXCEPT !.got = "Command", !.cmd = pkt.cmd,
                                     !.out = @ \o HandleWrites(pkt.cmd, f, k),
                                     !.ev = @ \o HandleEvents(f)]
                 /\ pc' = AfterHandle(f)
                 /\ result' = IF AfterHandle(f) = "done" THEN "ErrConnection"
                              ELSE result
                 /\ failed' = IF f = "ok" THEN failed ELSE f
                 /\ last_resp' = IF f = "ok"
                                 THEN Frame(ResponsePayload(pkt.cmd))
                                 ELSE last_resp
                 /\ hist' = [hist EXCEPT !.cmds = @ + 1,
                                         !.flushes = @ + FlushCalls(pkt.cmd, f)]
    /\ UNCHANGED <<conn_in, packet_buffer, mem_accesses, peer_cur, peer_sent,
                   steps, nread, prev, parse_vars>>

\* ------------------------------------------------------- run: match exec_state
\* variant: the Paused arm steps as well
StepsForPausedToo(es) == IF es = "Exit" THEN 0 ELSE 1

\* the steps run takes for an exec_state: one when Running, none otherwise
StepsFor(es) == IF es = "Running" THEN 1 ELSE 0

\* variant: a running target is stepped again without going back to the receive
AfterStepBatch(ts) ==
    IF ts = "Err" THEN [pc |-> "done", result |-> "ErrTarget"]
    ELSE IF ts = "Halted" THEN [pc |-> "done", result |-> "OkHalted"]
    ELSE [pc |-> "exec", result |-> "none"]

\* variant: the comparison with Halted is inverted
AfterStepInverted(ts) ==
    IF ts = "Err" THEN [pc |-> "done", result |-> "ErrTarget"]
    ELSE IF ts = "Running" THEN [pc |-> "done", result |-> "OkHalted"]
    ELSE [pc |-> "recv", result |-> "none"]

\* after a step: Halted returns, Running loops back to the receive
AfterStep(ts) ==
    IF ts = "Err" THEN [pc |-> "done", result |-> "ErrTarget"]
    ELSE IF ts = "Halted" THEN [pc |-> "done", result |-> "OkHalted"]
    ELSE [pc |-> "recv", result |-> "none"]

\* the second half of a loop iteration
ExecPhase ==
    /\ pc = "exec"
    /\ StepsFor(exec_state) = 1 => steps < MaxSteps
    /\ IF StepsFor(exec_state) = 1
       THEN \E ts \in {"Running", "Halted", "Err"} : \E acc \in StepAccesses :
               LET nxt == AfterStep(ts)
                   fin == [it EXCEPT !.steps = @ + 1, !.step_res = ts,
                                     !.ev = Append(@, "step")]
               IN  /\ steps' = steps + 1
                   /\ mem_accesses' = IF ts = "Err" THEN mem_accesses
                                      ELSE mem_accesses \o acc
                   /\ pc' = nxt.pc
                   /\ result' = nxt.result
                   /\ failed' = IF ts = "Err" THEN "step" ELSE failed
                   /\ IF nxt.pc = "recv"
                      THEN prev' = fin /\ it' = ItStart(exec_state)
                      ELSE prev' = prev /\ it' = fin
       ELSE IF exec_state = "Exit"
       THEN /\ pc' = "done"
            /\ result' = "OkRunning"
            /\ UNCHANGED <<steps, mem_accesses, failed, it, prev>>
       ELSE /\ pc' = "recv"
            /\ prev' = it
            /\ it' = ItStart(exec_state)
            /\ UNCHANGED <<steps, mem_accesses, failed, result>>
    /\ UNCHANGED <<exec_state, conn_in, conn_out, packet_buffer, peer_cur,
                   peer_sent, nread, last_resp, hist, parse_vars>>

Next ==
    \/ PeerSend
    \/ RecvHeader
    \/ RecvBody
    \/ RecvChecksum
    \/ Dispatch
    \/ ExecPhase

\* a session from GdbStub::new
Spec == Init /\ [][Next]_vars

\* run on a stub in any exec_state
SpecRun == InitRun /\ [][Next]_vars

\* ------------------------------------------------------------------ m::parse
\* longest body drawn from the whole alphabet
MaxBodyLen == 4

Comma == 44

\* characters the enumerated bodies are made of: 0 1 a F g , +
ParseAlphabet == {48, 49, 97, 70, 103, 44, 43}

\* "7fff0000,4"
B7FFF == <<55, 102, 102, 102, 48, 48, 48, 48, 44, 52>>
\* sixteen f, the largest u64: "ffffffffffffffff,1"
B16F == <<102, 102, 102, 102, 102, 102, 102, 102, 102, 102, 102, 102, 102, 102, 102, 102, 44, 49>>
\* seventeen digits, one more than a u64 holds: "10000000000000000,1"
B17 == <<49, 48, 48, 48, 48, 48, 48, 48, 48, 48, 48, 48, 48, 48, 48, 48, 48, 44, 49>>
\* a len of nine digits, more than a 32-bit usize holds: "0,100000000"
BLEN9 == <<48, 44, 49, 48, 48, 48, 48, 48, 48, 48, 48>>
\* a len of eight digits: "0,FFFFFFFF"
BLEN8 == <<48, 44, 70, 70, 70, 70, 70, 70, 70, 70>>
\* leading zeros do not count towards the width: "00000000000000000001,04"
BZEROS == <<48, 48, 48, 48, 48, 48, 48, 48, 48, 48, 48, 48, 48, 48, 48, 48, 48, 48, 48, 49, 44, 48, 52>>
\* a third field: "10,4,ff"
BTRAIL == <<49, 48, 44, 52, 44, 102, 102>>

\* bodies that reach the width limits and the spec's scenario
LongBodies ==
    { B7FFF,
      B16F,
      B17,
      BLEN9,
      BLEN8,
      BZEROS,
      BTRAIL }

\* the bodies m::parse is called with
Bodies ==
    UNION { [1..n -> ParseAlphabet] : n \in 0..MaxBodyLen } \cup LongBodies

\* char::to_digit(16): the value of a hexadecimal digit, -1 for None
ToDigit16(ch) ==
    IF ch >= 48 /\ ch <= 57 THEN ch - 48
    ELSE IF ch >= 97 /\ ch <= 102 THEN ch - 87
    ELSE IF ch >= 65 /\ ch <= 70 THEN ch - 55
    ELSE -1

\* position of the first comma of s, 0 when it has none
FirstComma(s) ==
    IF \E i \in 1..Len(s) : s[i] = Comma
    THEN CHOOSE i \in 1..Len(s) :
            s[i] = Comma /\ \A j \in 1..(i - 1) : s[j] # Comma
    ELSE 0

\* str::split(','): the fields between the commas, at least one
RECURSIVE SplitComma(_)
SplitComma(s) ==
    IF FirstComma(s) = 0 THEN <<s>>
    ELSE <<SubSeq(s, 1, FirstComma(s) - 1)>>
            \o SplitComma(SubSeq(s, FirstComma(s) + 1, Len(s)))

\* a number as its hexadecimal digits without leading zeros (0 is <<>>)
RECURSIVE StripZeros(_)
StripZeros(d) ==
    IF d = <<>> THEN <<>>
    ELSE IF Head(d) = 0 THEN StripZeros(Tail(d))
    ELSE d

\* uN::from_str_radix(src, 16) for an unsigned type of the given width: an
\* optional `+`, then digits; empty input, a lone sign, a character that is
\* no digit and a value of more than bits/4 hexadecimal digits are errors
FromStrRadix16(src, bits) ==
    IF src = <<>> THEN [ok |-> FALSE, val |-> <<>>]
    ELSE IF src = <<43>> \/ src = <<45>> THEN [ok |-> FALSE, val |-> <<>>]
    ELSE LET digits == IF Head(src) = 43 THEN Tail(src) ELSE src
         IN  IF \E i \in 1..Len(digits) : ToDigit16(digits[i]) < 0
             THEN [ok |-> FALSE, val |-> <<>>]
             ELSE LET v == StripZeros([i \in 1..Len(digits) |->
                                          ToDigit16(digits[i])])
                  IN  IF 4 * Len(v) > bits
                      THEN [ok |-> FALSE, val |-> <<>>]
                      ELSE [ok |-> TRUE, val |-> v]

\* Err(())
ParseErr == [ok |-> FALSE, addr |-> <<>>, len |-> <<>>]

\* variant: the two fields are taken in the wrong order
MParseSwapped(body, bits) ==
    LET f == SplitComma(body)
        l == FromStrRadix16(f[1], bits)
    IN  IF ~ l.ok THEN ParseErr
        ELSE IF Len(f) < 2 THEN ParseErr
        ELSE LET a == FromStrRadix16(f[2], 64)
             IN  IF ~ a.ok THEN ParseErr
                 ELSE [ok |-> TRUE, addr |-> a.val, len |-> l.val]

\* m::parse: the first field is the u64 addr, the second the usize len;
\* fields after the second are not looked at
MParse(body, bits) ==
    LET f == SplitComma(body)
        a == FromStrRadix16(f[1], 64)
    IN  IF ~ a.ok THEN ParseErr
        ELSE IF Len(f) < 2 THEN ParseErr
        ELSE LET l == FromStrRadix16(f[2], bits)
             IN  IF ~ l.ok THEN ParseErr
                 ELSE [ok |-> TRUE, addr |-> a.val, len |-> l.val]

\* a call of m::parse on a body, on a build with a 32- or 64-bit usize
InitParse ==
    /\ exec_state = "Paused"
    /\ conn_in = <<>>
    /\ conn_out = <<>>
    /\ packet_buffer = <<>>
    /\ mem_accesses = <<>>
    /\ pc = "recv"
    /\ result = "none"
    /\ peer_cur = <<>>
    /\ peer_sent = 0
    /\ steps = 0
    /\ nread = 0
    /\ failed = "none"
    /\ it = ItStart("Paused")
    /\ prev = ItStart("Paused")
    /\ last_resp = <<>>
    /\ hist = HistStart
    /\ m_body \in Bodies
    /\ m_bits \in {32, 64}
    /\ m_res = ParseErr
    /\ m_pc = "call"

\* the call returns
MParseCall ==
    /\ m_pc = "call"
    /\ m_res' = MParse(m_body, m_bits)
    /\ m_pc' = "done"
    /\ UNCHANGED <<engine_vars, m_body, m_bits>>

NextParse == MParseCall

\* m::parse called on each body
SpecParse == InitParse /\ [][NextParse]_vars

\* ================================================================ properties
\* the response frames of the engine, byte for byte
FrameOk == <<36, 79, 75, 35, 57, 97>>
FrameEmpty == <<36, 35, 48, 48>>

\* C1: in every iteration target.step is invoked exactly once when exec_state
\* is Running after the receive/dispatch phase and not at all when it is
\* Paused or Exit; a session that is Paused never steps the target.
C1_StepIffRunning ==
    /\ it.steps > 0 => exec_state = "Running"
    /\ it.steps <= 1 /\ prev.steps <= 1
    /\ exec_state # "Running" => steps = 0 /\ prev.steps = 0
    /\ (exec_state = "Running" /\ prev.polls = 1) => prev.steps = 1
    /\ (exec_state = "Running" /\ pc = "done" /\ it.got \in {"None", "Ack"})
          => it.steps = 1
    /\ (exec_state = "Running" /\ pc = "done" /\ failed \in {"none", "step"}
          /\ it.got = "Command") => it.steps = 1

\* C1 witness: a Running iteration dispatched a command and stepped once
C1_Witness ==
    exec_state = "Running" /\ prev.got = "Command" /\ prev.steps = 1

\* C2: a session starts Paused, and a dispatched `c` or `s` command makes
\* exec_state Running, so that the iteration that dispatched it steps the
\* target exactly once.
C2_ContinueMakesRunning ==
    /\ (it.cmd \in {"c", "s"} /\ pc = "exec") => exec_state = "Running"
    /\ prev.cmd \in {"c", "s"} => prev.steps = 1

\* C3: a Nack received after a response was sent makes the engine write that
\* response frame again, and the session goes on.
C3_NackRetransmits ==
    (it.got = "Nack" /\ last_resp # <<>>)
        => (it.out = last_resp /\ result = "none")

\* C4: an Ack leaves exec_state as it was and writes no byte in its iteration.
C4_AckNoEffect ==
    /\ it.got = "Ack" => (it.out = <<>> /\ exec_state = it.es0)
    /\ prev.got = "Ack" => (prev.out = <<>> /\ exec_state = prev.es0)

\* C4 witness: an Ack was received after a response and its iteration is over
C4_Witness ==
    prev.got = "Ack" /\ pc = "recv" /\ conn_out = <<Plus>> \o FrameOk

\* what one iteration that dispatched a command wrote: `+` first, then the
\* framed response of that command, cut short only by a failed write
AckThenResponse(r) ==
    LET full == <<Plus>> \o (IF r.cmd = "H" THEN FrameOk ELSE FrameEmpty)
    IN  /\ IsPrefix(r.out, full)
        /\ r.out # <<>> => Head(r.out) = Plus
        /\ IsPrefix(r.ev, <<"poll", "ack", "response", "step">>)

\* C5: for every command received the `+` is written before any byte of the
\* response; the transport sees `+` followed by the framed response.
C5_AckBeforeResponse ==
    /\ it.got = "Command" => AckThenResponse(it)
    /\ (it.got = "Command" /\ failed = "none")
          => it.out = <<Plus>> \o (IF it.cmd = "H" THEN FrameOk ELSE FrameEmpty)
    /\ prev.got = "Command"
          => prev.out = <<Plus>> \o (IF prev.cmd = "H" THEN FrameOk ELSE FrameEmpty)

\* C5 witness: an H command was answered with `+$OK#9a`
C5_Witness ==
    prev.got = "Command" /\ prev.cmd = "H" /\ prev.out = <<Plus>> \o FrameOk

\* the order of events of one Running iteration that stepped: one receive
\* attempt, a received command acknowledged and answered, then the step
PollThenStep(r) ==
    /\ r.polls = 1
    /\ r.ev \in { <<"poll", "step">>, <<"poll", "ack", "response", "step">> }
    /\ r.got \in {"None", "Ack", "Command"}
    /\ r.got = "Command" <=> r.ev = <<"poll", "ack", "response", "step">>

\* C6: while Running every iteration polls the transport once and then steps
\* the target once; a command found by that poll is acknowledged and
\* dispatched before the step.
C6_PollEveryStep ==
    exec_state = "Running" =>
        /\ it.polls <= 1 /\ it.steps <= 1
        /\ it.steps = 1 => PollThenStep(it)
        /\ prev.polls = 1 => (prev.steps = 1 /\ PollThenStep(prev))
        /\ (it.got = "Command" /\ pc = "exec") => it.ev = <<"poll", "ack", "response">>

\* C6 witness: two consecutive steps, the second after a dispatched command
C6_Witness ==
    /\ exec_state = "Running" /\ steps = 2 /\ pc = "recv"
    /\ prev.ev = <<"poll", "ack", "response", "step">>

\* a read of the engine that returns a byte or "nothing pending"
ReadReturns == (RecvHeader \/ RecvBody \/ RecvChecksum) /\ result' = "none"

C8_ChecksumMismatchNacked ==
    (it.got = "Err" /\ it.why = "checksum_mismatch") => it.out = <<Minus>>

\* the error run returns for a failed operation
WrapOf(op) ==
    IF op = "step" THEN "ErrTarget"
    ELSE IF op = "decode" THEN "ErrPacketParse"
    ELSE "ErrConnection"

\* C9: the first failing transport operation, step or decode makes run return
\* that error, wrapped by its kind, and nothing is read, written or stepped
\* after the failing operation.
C9_FirstErrorReturned ==
    [][ /\ failed' # "none" => (pc' = "done" /\ result' = WrapOf(failed'))
        /\ failed' \in {"read", "read_nonblocking", "decode", "ack_write"}
              => it'.out = <<>>
        /\ failed' = "write_str" => it'.out = <<Plus>>
        /\ failed' = "step" => it'.ev[Len(it'.ev)] = "step"
        /\ failed # "none" =>
              /\ failed' = failed /\ result' = result
              /\ conn_out' = conn_out /\ nread' = nread /\ steps' = steps
      ]_vars

\* C9 witness: the second step failed and run returned the target's error
C9_Witness == failed = "step" /\ steps = 2 /\ result = "ErrTarget"

\* C10: a step that reports Halted makes run return Ok(Halted) at once, with
\* no receive, write or step after it; a step that reports Running sends the
\* loop back to the receive; Ok(Halted) is returned only after such a step.
C10_HaltedEndsRun ==
    [][ /\ steps' = steps + 1 =>
              \/ it'.step_res = "Halted" /\ result' = "OkHalted" /\ pc' = "done"
              \/ prev'.step_res = "Running" /\ result' = "none" /\ pc' = "recv"
              \/ it'.step_res = "Err" /\ result' = "ErrTarget" /\ pc' = "done"
        /\ result' = "OkHalted" => (it'.step_res = "Halted" /\ it'.steps = 1)
        /\ result = "OkHalted" =>
              /\ result' = result /\ pc' = pc
              /\ conn_out' = conn_out /\ nread' = nread /\ steps' = steps
      ]_vars

\* C10 witness: a step reporting Running was followed by one reporting Halted
C10_Witness ==
    result = "OkHalted" /\ steps = 2 /\ prev.step_res = "Running"

\* the number of bytes b in s
RECURSIVE CountByte(_, _)
CountByte(s, b) ==
    IF s = <<>> THEN 0
    ELSE (IF Head(s) = b THEN 1 ELSE 0) + CountByte(Tail(s), b)

\* C11: handling one command flushes the ResponseWriter at most once, and
\* once when nothing fails, so the response frames on the transport never
\* outnumber the Command packets received.
C11_OneResponsePerCommand ==
    /\ hist.flushes <= hist.cmds
    /\ CountByte(conn_out, Dollar) <= hist.cmds
    /\ CountByte(it.out, Dollar) <= 1 /\ CountByte(prev.out, Dollar) <= 1
    /\ failed = "none" =>
          /\ hist.flushes = hist.cmds
          /\ CountByte(conn_out, Dollar) = hist.cmds
          /\ CountByte(conn_out, Hash) = hist.cmds

\* C11 witness: two commands were received and two frames are on the transport
C11_Witness ==
    hist.cmds = 2 /\ hist.flushes = 2 /\ CountByte(conn_out, Dollar) = 2

\* C12: an Unknown command, and a command the engine does not implement, is
\* acknowledged with `+` and answered with the empty frame `$#00`, and
\* exec_state keeps its value.
C12_UnknownEmptyResponse ==
    /\ (it.got = "Command" /\ it.cmd \in {"Unknown", "c", "s"} /\ pc = "exec")
          => (it.out = <<Plus>> \o FrameEmpty /\ exec_state = it.es0)
    /\ (prev.got = "Command" /\ prev.cmd \in {"Unknown", "c", "s"})
          => (prev.out = <<Plus>> \o FrameEmpty /\ exec_state = prev.es0)

\* C12 witness: an Unknown command was answered with `+$#00`
C12_Witness ==
    prev.cmd = "Unknown" /\ prev.out = <<43, 36, 35, 48, 48>> /\ pc = "recv"

\* the hexadecimal digit characters, upper and lower case
HexChars == (48..57) \cup (65..70) \cup (97..102)

\* a non-empty string of hexadecimal digits
IsHexField(f) == f # <<>> /\ \A i \in 1..Len(f) : f[i] \in HexChars

\* the digits of a field that count: those after its leading `0` characters
RECURSIVE SigDigits(_)
SigDigits(f) ==
    IF f = <<>> THEN <<>>
    ELSE IF Head(f) = 48 THEN SigDigits(Tail(f))
    ELSE f

\* the number a string of at most seven counting digits denotes
RECURSIVE NumValue(_)
NumValue(f) ==
    IF f = <<>> THEN 0
    ELSE 16 * NumValue(SubSeq(f, 1, Len(f) - 1)) + HexVal(f[Len(f)])

\* the number a parsed value of at most seven digits is
RECURSIVE ValueOf(_)
ValueOf(v) ==
    IF v = <<>> THEN 0
    ELSE 16 * ValueOf(SubSeq(v, 1, Len(v) - 1)) + v[Len(v)]

\* a body ADDR,LEN of two hexadecimal fields that fit a u64 and the usize
WellFormedPair(body, bits) ==
    LET c == FirstComma(body)
        a == SubSeq(body, 1, c - 1)
        l == SubSeq(body, c + 1, Len(body))
    IN  /\ c > 0
        /\ IsHexField(a) /\ IsHexField(l)
        /\ 4 * Len(SigDigits(a)) <= 64
        /\ 4 * Len(SigDigits(l)) <= bits

\* C13: for every body ADDR,LEN of two non-empty hexadecimal fields that fit
\* 64 bits and the machine word, m::parse succeeds with addr and len equal to
\* the numbers the fields denote; "7fff0000,4" gives addr 0x7fff0000, len 4.
C13_ParsesHexPair ==
    (m_pc = "done" /\ WellFormedPair(m_body, m_bits)) =>
        LET c == FirstComma(m_body)
            a == SubSeq(m_body, 1, c - 1)
            l == SubSeq(m_body, c + 1, Len(m_body))
        IN  /\ m_res.ok
            /\ Len(m_res.addr) = Len(SigDigits(a))
            /\ Len(m_res.len) = Len(SigDigits(l))
            /\ Len(SigDigits(a)) <= 7 => ValueOf(m_res.addr) = NumValue(SigDigits(a))
            /\ Len(SigDigits(l)) <= 7 => ValueOf(m_res.len) = NumValue(SigDigits(l))
            /\ m_body = B7FFF =>
                  /\ ValueOf(m_res.addr) = 2147418112
                  /\ ValueOf(m_res.len) = 4

\* C13 witness: "7fff0000,4" was parsed to addr 0x7fff0000, len 4
C13_Witness ==
    /\ m_pc = "done" /\ m_body = B7FFF /\ m_res.ok
    /\ m_res.addr = <<7, 15, 15, 15, 0, 0, 0, 0>> /\ m_res.len = <<4>>

\* a body with a missing or malformed field: no second field, an empty
\* field, a character that is no hexadecimal digit, a value too wide
MalformedField(body, bits) ==
    LET f == SplitComma(body)
    IN  \/ Len(f) < 2
        \/ ~ IsHexField(f[1])
        \/ ~ IsHexField(f[2])
        \/ 4 * Len(SigDigits(f[1])) > 64
        \/ 4 * Len(SigDigits(f[2])) > bits

\* C14: m::parse returns Err for every body in which a field is missing or
\* malformed.
C14_MalformedRejected ==
    (m_pc = "done" /\ MalformedField(m_body, m_bits)) => ~ m_res.ok

\* C15: m::parse returns Err for every body that has further content after a
\* well-formed ADDR,LEN pair, such as a third comma-separated field.
C15_TrailingRejected ==
    (m_pc = "done" /\ Len(SplitComma(m_body)) >= 3
        /\ ~ MalformedField(m_body, m_bits)) => ~ m_res.ok

UnitShape(buf) ==
    \/ Len(buf) = 1 /\ buf[1] # Dollar
    \/ /\ Len(buf) >= 4
       /\ buf[1] = Dollar
       /\ buf[Len(buf) - 2] = Hash
       /\ \A i \in 2..(Len(buf) - 3) : buf[i] # Hash

\* C17: recv_packet consumes exactly one logical unit: nothing after a `+` or
\* `-`, and after `$` the bytes up to the first `#` and two more; what
\* follows stays on the transport for the next receive; a poll that finds
\* nothing pending consumes nothing.
C17_OneUnitConsumed ==
    /\ conn_in = SubSeq(hist.stream, nread + 1, Len(hist.stream))
    /\ pc \in {"body", "ck1", "ck2", "decode"}
          => packet_buffer = SubSeq(hist.stream, hist.unit_start + 1, nread)
    /\ pc = "decode" => UnitShape(packet_buffer)
    /\ (pc = "exec" /\ it.got \in {"Ack", "Command"})
          => /\ UnitShape(packet_buffer)
             /\ packet_buffer = SubSeq(hist.stream, hist.unit_start + 1, nread)
    /\ it.got = "None" => (nread = hist.unit_start /\ exec_state = "Running")

\* C17 witness: a whole frame was consumed while a later byte stays pending
C17_Witness ==
    /\ pc = "decode" /\ Head(packet_buffer) = Dollar /\ conn_in # <<>>
    /\ exec_state = "Running"

\* C18: recv_packet is never called while exec_state is Exit, so its
\* unreachable!() arm is never reached.
C18_UnreachableNotReached ==
    /\ result # "panic_unreachable"
    /\ pc \in {"recv", "body", "ck1", "ck2", "decode"} => exec_state # "Exit"
    /\ it.polls > 0 => it.es0 # "Exit"
    /\ prev.polls > 0 => prev.es0 # "Exit"

\* C18 witness: recv_packet has been called in two iterations
C18_Witness ==
    prev.polls = 1 /\ it.polls = 1 /\ hist.cmds = 1 /\ result = "none"

\* C19: `+` is written only for a frame received in full and decoded: a read
\* that fails inside a frame, or a rejected buffer, leaves the iteration
\* without any written byte, and a failed `+` is followed by no response.
C19_AckOnlyAfterDecode ==
    /\ failed \in {"read", "read_nonblocking", "decode"} => it.out = <<>>
    /\ failed = "ack_write" => it.out = <<>>
    /\ it.out # <<>> =>
          /\ it.got = "Command"
          /\ FromBuf(packet_buffer).kind = "Command"
          /\ UnitShape(packet_buffer)
    /\ CountByte(conn_out, Plus) <= hist.cmds

\* C19 witness: a read failed inside a frame that followed an answered command
C19_Witness ==
    /\ failed = "read" /\ Len(packet_buffer) >= 2 /\ Head(packet_buffer) = Dollar
    /\ pc = "done" /\ it.out = <<>> /\ conn_out = <<Plus>> \o FrameOk

====
